---- MODULE Spec2Model ----
(***************************************************************************)
(* Model of experiment.py (reward_feedback_pointing_2025): one trial of    *)
(* the pointing task as a state machine over polling ticks, together with  *)
(* the click classifier, the payout table, the circle placement and the    *)
(* event timeline registered in trial_prep.                                *)
(*                                                                         *)
(* Time is the reading of the trial clock (ms) at the poll that observes   *)
(* an event.  Lengths are held in multiples of the stroke thickness        *)
(* (THICKNESS = 0.05 UNIT), so that every stimulus size is a whole number. *)
(* An optional value (Python None) is the empty sequence, a set value v is *)
(* <<v>>.                                                                  *)
(***************************************************************************)
EXTENDS Integers, Sequences, FiniteSets, TLC

\* ------------------------------------------------------------------------
\* Program constants
\* ------------------------------------------------------------------------
OPEN == "OPEN"
CLOSE == "CLOSE"

REWARD_PAYOUT == 100
PENALTY_PAYOUT == 0 - 600
VENN_PAYOUT == 0 - 500
MISS_PAYOUT == 0
TIMEOUT_PAYOUT == 0 - 700

RECT_ONSET == 1000
CIRC_ONSET == 500
PREVIEW_WINDOW == 300
TIMEOUT_AFTER == 650
PRACTICE_TIMEOUT == 30000
SLEEP_MS == 300

START == "start"
RECT == "rect"
REWARD == "reward"
VISION == "vision"
PENALTY == "penalty"
OUTSIDE == "outside"
OVERLAP == "overlap"
PRACTICE == "practice"
RECTANGLE_ONSET == "rectangle_onset"
CIRCLE_ONSET == "circle_onset"
GO_SIGNAL == "go_signal"
TRIAL_TIMEOUT == "trial_timeout"
NA == "NA"
NoLabel == "None"

OFFSET == 21
CIRCLE_DIAM == 2
RECT_WIDTH == 13
RECT_HEIGHT == 9
CONDITION_REPEATS == 3

\* ------------------------------------------------------------------------
\* Bounds of the model
\* ------------------------------------------------------------------------
MaxBatch == 2
MaxTrials == 2
MaxBlocks == 2

\* ------------------------------------------------------------------------
\* Optional values
\* ------------------------------------------------------------------------
None == <<>>

Some(v) == <<v>>

IsSet(o) == o # <<>>

Val(o) == o[1]

\* ------------------------------------------------------------------------
\* Stimulus geometry (setup)
\* ------------------------------------------------------------------------
\* stroke thickness, the length every other size is a multiple of
thick == 1

\* self.unit: THICKNESS = 0.05 of a UNIT, so a UNIT is 20 thicknesses
unit == 20 * thick

\* one pixel: the display shows a UNIT on 2 pixels (P.ppi / 25.4 * 9 = 2)
px == unit \div 2

\* P.screen_x, P.screen_y
screen_x == 32 * px

screen_y == 54 * px

offset == unit * OFFSET

rect_w == unit * RECT_WIDTH

rect_h == unit * RECT_HEIGHT

target_circle_d == unit * CIRCLE_DIAM

start_circle_d == unit * CIRCLE_DIAM * 3

\* Python int() on a non-negative length: truncation to whole pixels
int(v) == (v \div px) * px

\* the corners handed to RectangleBoundary in setup
setup_p1 == << (screen_x \div 2) + (rect_w \div 2), (screen_y - offset) - (rect_h \div 2) >>

setup_p2 == << (screen_x \div 2) - (rect_w \div 2), (screen_y - offset) + (rect_h \div 2) >>

Min(a, b) == IF a <= b THEN a ELSE b

Max(a, b) == IF a >= b THEN a ELSE b

\* RectangleBoundary: the two opposite corners, normalised to
\* (upper-left, lower-right)
RectangleBoundary(p1, p2) ==
  [p1 |-> << Min(p1[1], p2[1]), Min(p1[2], p2[2]) >>,
   p2 |-> << Max(p1[1], p2[1]), Max(p1[2], p2[2]) >>]

CircleBoundary(center, radius) == [center |-> center, radius |-> radius]

rect_boundary == RectangleBoundary(setup_p1, setup_p2)

start_boundary == CircleBoundary(<< screen_x \div 2, screen_y >>, start_circle_d \div 2)

within_rect(b, p) ==
  /\ b.p1[1] <= p[1] /\ p[1] <= b.p2[1]
  /\ b.p1[2] <= p[2] /\ p[2] <= b.p2[2]

within_circle(b, p) ==
  (p[1] - b.center[1]) * (p[1] - b.center[1])
    + (p[2] - b.center[2]) * (p[2] - b.center[2]) <= b.radius * b.radius

\* ------------------------------------------------------------------------
\* get_circle_placements
\* ------------------------------------------------------------------------
rad_px == target_circle_d \div 2

circle_offset == rad_px \div 2

padd == thick * 2

\* randrange(start, stop): whole pixels start <= v < stop
randrange(start, stop) == { v \in start .. (stop - 1) : v % px = 0 }

\* origin_xs without the margin that keeps the circles inside the frame
origin_xs_no_margin ==
  randrange(int(int(rect_boundary.p1[1])), int(int(rect_boundary.p2[1])))

origin_xs ==
  randrange(int(int(rect_boundary.p1[1]) + ((3 * rad_px) \div 2) + padd),
            int(int(rect_boundary.p2[1]) - ((3 * rad_px) \div 2) - padd))

origin_ys ==
  randrange(int(int(rect_boundary.p1[2]) + rad_px + padd),
            int(int(rect_boundary.p2[2]) - rad_px - padd))

get_circle_placements(side, origin_x, origin_y) ==
  IF side = "right"
    THEN [penalty |-> << origin_x - circle_offset, origin_y >>,
          reward |-> << origin_x + circle_offset, origin_y >>]
    ELSE [reward |-> << origin_x - circle_offset, origin_y >>,
          penalty |-> << origin_x + circle_offset, origin_y >>]

\* the boundaries trial_prep registers for the placed circles
circle_boundaries(pos) ==
  [penalty |-> CircleBoundary(pos.penalty, target_circle_d \div 2),
   reward |-> CircleBoundary(pos.reward, target_circle_d \div 2)]

\* ------------------------------------------------------------------------
\* listen_for_click and get_payout
\* ------------------------------------------------------------------------
\* the three containment tests of listen_for_click on clicks[0]
click_tests(bs, p) ==
  [reward |-> within_circle(bs.reward, p),
   penalty |-> within_circle(bs.penalty, p),
   rect |-> within_rect(rect_boundary, p)]

\* click_label with the circle tests made before the frame test
click_label_circles_first(t) ==
  IF t.reward /\ t.penalty THEN OVERLAP
  ELSE IF t.reward THEN REWARD
  ELSE IF t.penalty THEN PENALTY
  ELSE IF t.rect THEN RECT
  ELSE OUTSIDE

\* the decision tree of listen_for_click
click_label(t) ==
  IF t.rect
    THEN IF t.reward /\ ~t.penalty THEN REWARD
         ELSE IF t.penalty /\ ~t.reward THEN PENALTY
         ELSE IF t.reward /\ t.penalty THEN OVERLAP
         ELSE RECT
    ELSE OUTSIDE

\* listen_for_click taking the last click of the poll instead of the first
listen_for_click_last(bs, clicks) ==
  IF Len(clicks) > 0
    THEN [at |-> clicks[Len(clicks)],
          on |-> click_label(click_tests(bs, clicks[Len(clicks)]))]
    ELSE [at |-> << 0 - 1, 0 - 1 >>, on |-> NoLabel]

\* listen_for_click giving up on a poll that holds more than one click
listen_for_click_single(bs, clicks) ==
  IF Len(clicks) = 1
    THEN [at |-> clicks[1], on |-> click_label(click_tests(bs, clicks[1]))]
    ELSE [at |-> << 0 - 1, 0 - 1 >>, on |-> NoLabel]

\* listen_for_click: clicks is the sequence of points get_clicks() returns
listen_for_click(bs, clicks) ==
  IF Len(clicks) > 0
    THEN [at |-> clicks[1], on |-> click_label(click_tests(bs, clicks[1]))]
    ELSE [at |-> << 0 - 1, 0 - 1 >>, on |-> NoLabel]

\* get_payout without the branch for a missing click
get_payout_no_timeout(clicked_on) ==
  IF clicked_on = REWARD THEN REWARD_PAYOUT
  ELSE IF clicked_on = PENALTY THEN PENALTY_PAYOUT
  ELSE IF clicked_on = OVERLAP THEN VENN_PAYOUT
  ELSE IF clicked_on = OUTSIDE THEN 0
  ELSE MISS_PAYOUT

get_payout(clicked_on) ==
  IF clicked_on = NoLabel THEN TIMEOUT_PAYOUT
  ELSE IF clicked_on = REWARD THEN REWARD_PAYOUT
  ELSE IF clicked_on = PENALTY THEN PENALTY_PAYOUT
  ELSE IF clicked_on = OVERLAP THEN VENN_PAYOUT
  ELSE IF clicked_on = OUTSIDE THEN 0
  ELSE MISS_PAYOUT

\* ------------------------------------------------------------------------
\* Event timeline (self.evm) as trial_prep and trial use it
\* ------------------------------------------------------------------------
registered(ev, label) == \E i \in 1 .. Len(ev) : ev[i].label = label

deadline(ev, label) == (ev[CHOOSE i \in 1 .. Len(ev) : ev[i].label = label]).onset

\* evm.add_event(label, onset, after): the deadline is resolved at
\* registration, relative to the deadline of the event named by after
add_event(ev, label, onset, after) ==
  Append(ev, [label |-> label,
              offset |-> onset,
              onset |-> onset + (IF after = NoLabel THEN 0 ELSE deadline(ev, after)),
              after |-> after])

\* trial_timeout of trial_prep
trial_timeout(is_practice) == IF ~is_practice THEN TIMEOUT_AFTER ELSE PRACTICE_TIMEOUT

\* register_events with the go signal chained to the rectangle onset
register_events_go_after_rect(is_practice) ==
  LET e1 == add_event(<<>>, RECTANGLE_ONSET, RECT_ONSET, NoLabel)
      e2 == add_event(e1, CIRCLE_ONSET, CIRC_ONSET, RECTANGLE_ONSET)
      e3 == add_event(e2, GO_SIGNAL, PREVIEW_WINDOW, RECTANGLE_ONSET)
  IN  add_event(e3, TRIAL_TIMEOUT, trial_timeout(is_practice), GO_SIGNAL)

\* the four add_event calls of trial_prep, in order
register_events(is_practice) ==
  LET e1 == add_event(<<>>, RECTANGLE_ONSET, RECT_ONSET, NoLabel)
      e2 == add_event(e1, CIRCLE_ONSET, CIRC_ONSET, RECTANGLE_ONSET)
      e3 == add_event(e2, GO_SIGNAL, PREVIEW_WINDOW, CIRCLE_ONSET)
  IN  add_event(e3, TRIAL_TIMEOUT, trial_timeout(is_practice), GO_SIGNAL)

\* ------------------------------------------------------------------------
\* Input: what one pump(True) drains from the event queue
\* ------------------------------------------------------------------------
\* touch points (pixels) offered to the trial: inside both circles, inside
\* one (the reward or the penalty circle, by reward_side), inside the frame
\* only, and on the start marker outside the frame
TouchPoints ==
  { << 6 * px, 5 * px >>, << 9 * px, 5 * px >>,
    << 16 * px, 12 * px >>, << 16 * px, 54 * px >> }

InputEvents ==
  { << "up", << 16 * px, 54 * px >> >>, << "space", << 0, 0 >> >>,
    << "quit", << 0, 0 >> >> }
    \cup { << "down", p >> : p \in TouchPoints }

\* the readers of the queue (ui_request, key_pressed, get_clicks) select the
\* events of one kind and keep their order: the order between events of
\* different kinds, and a second quit request or spacebar press, change
\* nothing
kind_rank(e) ==
  CASE e[1] = "quit" -> 1
    [] e[1] = "space" -> 2
    [] e[1] = "up" -> 3
    [] OTHER -> 4

\* the queues of at most MaxBatch events, one for each of the orders that the
\* readers of the queue tell apart
Batches ==
  { q \in UNION { [1 .. n -> InputEvents] : n \in 0 .. MaxBatch } :
      \A i \in 1 .. (Len(q) - 1) :
        /\ kind_rank(q[i]) <= kind_rank(q[i + 1])
        /\ kind_rank(q[i]) < 3 => kind_rank(q[i]) < kind_rank(q[i + 1]) }

\* get_clicks(released, queue): the positions of the button-up (released)
\* or button-down events of the queue, in order
get_clicks(q, released) ==
  LET kind == IF released THEN "up" ELSE "down"
      sel == SelectSeq(q, LAMBDA e : e[1] = kind)
  IN  [i \in 1 .. Len(sel) |-> sel[i][2]]

key_pressed(q) == \E i \in 1 .. Len(q) : q[i][1] = "space"

\* ui_request(queue=q): the queue holds a quit request, the experiment quits
ui_request(q) == \E i \in 1 .. Len(q) : q[i][1] = "quit"

\* circle origin offered to trial_prep by randrange: the upper-left extreme
TrialOrigins ==
  { o \in origin_xs \X origin_ys :
      \A x \in origin_xs, y \in origin_ys : o[1] <= x /\ o[2] <= y }

\* ------------------------------------------------------------------------
\* Frames put on screen
\* ------------------------------------------------------------------------
draw_display(fix, rect, circles, also) ==
  [fix |-> fix, rect |-> rect, circles |-> circles, also |-> also]

blank == draw_display(FALSE, FALSE, FALSE, "")

text_only(txt) == draw_display(FALSE, FALSE, FALSE, txt)

\* ------------------------------------------------------------------------
\* State
\* ------------------------------------------------------------------------
VARIABLES
  pc,             \* position of the program
  run_practice,   \* P.run_practice_blocks
  practicing,     \* P.practicing
  condition,      \* self.condition
  conditions,     \* self.conditions
  bank,           \* self.bank
  block_number,   \* P.block_number
  trial_number,   \* P.trial_number
  raised,         \* TrialException raised by the current trial
  goggles,        \* last command written to self.goggles
  display,        \* frame on screen
  frames,         \* frames flipped by the last step, in order
  events,         \* self.evm: registered events
  now,            \* wall time since the trial clock was started, ms
  running,        \* trial clock not stopped
  countdown,      \* CountDown of wait_for / smart_sleep: time left
  positions,      \* self.positions
  reward_side,    \* self.reward_side
  tone_count,     \* plays of the go tone in the current trial
  tone_play_time, \* locals of trial()
  rt,
  mt,
  clicked_on,
  clicked_at,
  pay,
  tests,          \* locals of listen_for_click
  outcome,        \* record returned by the current trial
  ev_tone,        \* time at which the go tone was played
  ev_release,     \* time of the first poll of trial() that held a release
  ev_click,       \* time, point and number of clicks of the first poll after
                  \* the release that held a click
  ev_start,       \* the last poll of the wait loop of trial_prep that held a
                  \* click: its first click, and whether any of its clicks
                  \* is inside the start boundary
  close_count,    \* writes of CLOSE in the current trial
  sum_earnings,   \* sum of the trial_earnings of the records returned in
                  \* the current block
  last_block_earnings \* block_earnings of the last record returned in the
                  \* current block, 0 before the first

blockVars == << run_practice, practicing, condition, conditions, bank, block_number, trial_number >>

locals == << tone_play_time, rt, mt, clicked_on, clicked_at, pay, tests >>

hist == << ev_tone, ev_release, ev_click, ev_start, close_count >>

ledger == << sum_earnings, last_block_earnings >>

clockVars == << events, now, running >>

vars == << pc, blockVars, raised, goggles, display, frames, clockVars, countdown,
           positions, reward_side, tone_count, locals, outcome, hist, ledger >>

\* ------------------------------------------------------------------------
\* Clock
\* ------------------------------------------------------------------------
go_time == RECT_ONSET + CIRC_ONSET + PREVIEW_WINDOW

\* clock readings at which the loops of trial() are followed: each deadline
\* of the timeline of the trial, the millisecond before it, and two instants
\* inside the response window
PollTimes ==
  { 0, deadline(events, GO_SIGNAL) + 120, deadline(events, GO_SIGNAL) + 350 }
    \cup UNION { { events[i].onset - 1, events[i].onset } : i \in 1 .. Len(events) }

\* evm.trial_time_ms
trial_time_ms == now

\* evm.before(label), evm.after(label)
before(label) == trial_time_ms < deadline(events, label)

after(label) == trial_time_ms >= deadline(events, label)

\* feedback waits are held in quanta of the 300 ms of smart_sleep
FeedbackQuanta == 2

SleepQuanta == SLEEP_MS \div 300

\* ------------------------------------------------------------------------
\* Initial state: the experiment after setup()
\* ------------------------------------------------------------------------
setup_conditions(first) ==
  LET order == IF first = VISION THEN << VISION, REWARD >> ELSE << REWARD, VISION >>
  IN  [i \in 1 .. (2 * CONDITION_REPEATS) |-> order[((i - 1) \div CONDITION_REPEATS) + 1]]

noTests == [reward |-> FALSE, penalty |-> FALSE, rect |-> FALSE]

noPositions == [penalty |-> << 0, 0 >>, reward |-> << 0, 0 >>]

Init ==
  /\ pc = "block"
  /\ run_practice \in BOOLEAN
  /\ practicing = FALSE
  /\ condition = NoLabel
  /\ \E first \in { VISION, REWARD } : conditions = setup_conditions(first)
  /\ bank = 0
  /\ block_number = 0
  /\ trial_number = 0
  /\ raised = FALSE
  /\ goggles = "NONE"
  /\ display = blank
  /\ frames = <<>>
  /\ events = <<>>
  /\ now = 0
  /\ running = FALSE
  /\ countdown = 0
  /\ positions = noPositions
  /\ reward_side = "left"
  /\ tone_count = 0
  /\ tone_play_time = None
  /\ rt = None
  /\ mt = None
  /\ clicked_on = NoLabel
  /\ clicked_at = None
  /\ pay = None
  /\ tests = noTests
  /\ outcome = None
  /\ ev_tone = None
  /\ ev_release = None
  /\ ev_click = None
  /\ ev_start = None
  /\ close_count = 0
  /\ sum_earnings = 0
  /\ last_block_earnings = 0

\* ------------------------------------------------------------------------
\* block()
\* ------------------------------------------------------------------------
\* block(): open the goggles, take the block's condition, reset the bank,
\* present the instructions
block ==
  /\ pc = "block"
  /\ goggles' = OPEN
  /\ block_number' = block_number + 1
  /\ practicing' = (run_practice /\ block_number = 0)
  /\ IF practicing'
       THEN condition' = PRACTICE /\ conditions' = conditions
       ELSE condition' = Head(conditions) /\ conditions' = Tail(conditions)
  /\ bank' = 0
  /\ trial_number' = 1
  /\ display' = text_only("instructions")
  /\ frames' = << text_only("instructions") >>
  /\ sum_earnings' = 0
  /\ last_block_earnings' = 0
  /\ pc' = "block_wait"
  /\ UNCHANGED << run_practice, raised, clockVars, countdown, positions, reward_side,
                  tone_count, locals, outcome, hist >>

\* what ui_request() returns over the queues of at most MaxBatch events
QuitRequests == { ui_request(q) : q \in Batches }

\* what key_pressed(SPACE) returns when it drains such a queue itself
SpacePressed == { key_pressed(q2) : q2 \in Batches }

\* what key_pressed(SPACE, queue=q) returns for a queue q in which
\* ui_request(queue=q) found no quit request
SpacePressedInQueue == { key_pressed(q) : q \in { b \in Batches : ~ui_request(b) } }

\* the pass of the spacebar loop of block() that sees the spacebar: the
\* queue drained for ui_request is dropped, key_pressed(SPACE) drains the
\* queue again (q2)
block_wait ==
  /\ pc = "block_wait"
  /\ TRUE \in SpacePressed
  /\ pc' = "trial_prep"
  /\ UNCHANGED << blockVars, raised, goggles, display, frames, clockVars, countdown,
                  positions, reward_side, tone_count, locals, outcome, hist, ledger >>

\* ------------------------------------------------------------------------
\* trial_prep()
\* ------------------------------------------------------------------------
\* trial_prep() up to its wait loop
trial_prep ==
  /\ pc = "trial_prep"
  /\ goggles' = OPEN
  /\ \E side \in { "left", "right" }, o \in TrialOrigins :
       /\ reward_side' = side
       /\ positions' = get_circle_placements(side, o[1], o[2])
  /\ events' = register_events(practicing)
  /\ display' = draw_display(TRUE, FALSE, FALSE, "")
  /\ frames' = << draw_display(TRUE, FALSE, FALSE, "") >>
  /\ raised' = FALSE
  /\ tone_count' = 0
  /\ tone_play_time' = None /\ rt' = None /\ mt' = None
  /\ clicked_on' = NoLabel /\ clicked_at' = None /\ pay' = None
  /\ tests' = noTests
  /\ outcome' = None
  /\ ev_tone' = None /\ ev_release' = None /\ ev_click' = None
  /\ ev_start' = None /\ close_count' = 0
  /\ now' = 0
  /\ running' = FALSE
  /\ countdown' = 0
  /\ pc' = "await_start"
  /\ UNCHANGED << blockVars, ledger >>

\* what get_clicks(queue=q) returns for a queue q of at most MaxBatch events
\* in which ui_request(queue=q) found no quit request
StartClicks == { get_clicks(q, FALSE) : q \in { b \in Batches : ~ui_request(b) } }

\* at_start_pos set by any touch of the poll, wherever it lands
at_start_pos_any_touch(touch_events) == Len(touch_events) > 0

\* "if touch_events: at_start_pos = within_boundary(START, touch_events[0])"
at_start_pos(touch_events) ==
  Len(touch_events) > 0 /\ within_circle(start_boundary, touch_events[1])

\* whether some click of the poll is inside the start boundary
holds_start_click(touch_events) ==
  \E i \in 1 .. Len(touch_events) : within_circle(start_boundary, touch_events[i])

\* one pass of the wait loop of trial_prep that finds a click in the queue;
\* once the first click of a poll is on the start marker the loop ends and
\* the trial clock is started for trial()
trial_prep_wait ==
  /\ pc = "await_start"
  /\ \E touch_events \in StartClicks :
       /\ Len(touch_events) > 0
       /\ ev_start' = Some(<< touch_events[1], holds_start_click(touch_events) >>)
       /\ IF at_start_pos(touch_events)
            THEN /\ now' = 0
                 /\ running' = TRUE
                 /\ pc' = "reveal"
            ELSE UNCHANGED << now, running, pc >>
  /\ frames' = <<>>
  /\ UNCHANGED << blockVars, raised, goggles, display, events, countdown,
                  positions, reward_side, tone_count, locals, outcome,
                  ev_tone, ev_release, ev_click, close_count, ledger >>

\* ------------------------------------------------------------------------
\* trial()
\* ------------------------------------------------------------------------
\* the pre-go loop left as soon as the circles are due
go_signal_pending_circles == before(CIRCLE_ONSET)

\* "while self.evm.before(GO_SIGNAL)"
go_signal_pending == before(GO_SIGNAL)

\* frames drawn by one pass of the pre-go loop that saw no release
reveal_frames ==
  (IF after(RECTANGLE_ONSET) THEN << draw_display(FALSE, TRUE, FALSE, "") >> ELSE <<>>)
    \o (IF after(CIRCLE_ONSET) /\ ~practicing
          THEN << draw_display(FALSE, TRUE, TRUE, "") >> ELSE <<>>)

\* the pre-go loop has made a pass at the present clock reading: what such
\* a pass draws is on screen
reveal_pass_made ==
  Len(reveal_frames) > 0 => display = reveal_frames[Len(reveal_frames)]

\* the clock reaches the next instant at which the loops of trial() are
\* followed; the pre-go loop, which polls without pause, has made a pass at
\* the present one
Tick ==
  /\ \/ pc = "reveal" /\ go_signal_pending /\ reveal_pass_made
     \/ pc = "wait_release" /\ rt = None /\ before(TRIAL_TIMEOUT)
     \/ pc = "wait_click" /\ mt = None /\ before(TRIAL_TIMEOUT)
  /\ \E t \in PollTimes :
       /\ t > now /\ t <= deadline(events, TRIAL_TIMEOUT)
       /\ \A u \in PollTimes : u > now => t <= u
       /\ now' = t
  /\ frames' = <<>>
  /\ UNCHANGED << pc, blockVars, raised, goggles, display, events, running, countdown,
                  positions, reward_side, tone_count, locals, outcome, hist, ledger >>

\* what get_clicks(released=True, queue=q) returns for such a queue
Releases == { get_clicks(q, TRUE) : q \in { b \in Batches : ~ui_request(b) } }

\* the pre-go test reacting only to more than one release in a poll
premature_release_many(touch_events) == Len(touch_events) > 1

\* "if touch_events:" of the pre-go loop
premature_release(touch_events) == Len(touch_events) > 0

\* "if touch_events:" of the release loop
movement_start(touch_events) == Len(touch_events) > 0

\* release_goggles testing for the wrong condition
release_goggles_vision(cond, g) == IF cond = VISION THEN CLOSE ELSE g

\* release_goggles closing in every condition
release_goggles_always(cond, g) == CLOSE

\* "if self.condition == REWARD: self.goggles.write(CLOSE)" at release
release_goggles(cond, g) == IF cond = REWARD THEN CLOSE ELSE g

\* feedback_kind without the branch of the vision condition
feedback_kind_no_vision(cond) ==
  IF cond = PRACTICE THEN "movement_time" ELSE "earnings"

\* the feedback branch taken for a resolved click
feedback_kind(cond) ==
  IF cond = PRACTICE THEN "movement_time"
  ELSE IF cond = REWARD THEN "earnings"
  ELSE "landing"

\* the feedback without the write of OPEN
reopen_goggles_skipped(g) == g

\* "smart_sleep(300); self.goggles.write(OPEN)" before the payout text
reopen_goggles(g) == OPEN

\* trial_clean_up: the block score is presented
shows_block_score(cond, trial_num) == cond = REWARD /\ trial_num % MaxTrials = 0

\* one pass of the loop "while self.evm.before(GO_SIGNAL)"
trial_reveal ==
  /\ pc = "reveal"
  /\ go_signal_pending
  /\ \E touch_events \in Releases :
       /\ ev_release' = IF ~IsSet(ev_release) /\ Len(touch_events) > 0
                           THEN Some(now) ELSE ev_release
       /\ IF premature_release(touch_events)
            THEN /\ running' = FALSE
                 /\ display' = draw_display(FALSE, FALSE, FALSE, "warning")
                 /\ frames' = << draw_display(FALSE, FALSE, FALSE, "warning") >>
                 /\ countdown' = FeedbackQuanta
                 /\ pc' = "abort_wait"
            ELSE /\ frames' = reveal_frames
                 /\ display' = IF Len(reveal_frames) > 0
                                 THEN reveal_frames[Len(reveal_frames)] ELSE display
                 /\ UNCHANGED << running, countdown, pc >>
  /\ UNCHANGED << blockVars, raised, goggles, events, now, positions, reward_side,
                  tone_count, locals, outcome, ev_tone, ev_click, ev_start,
                  close_count, ledger >>

\* a CountDown read from the trial clock, which stop_clock() freezes
elapsed_on_trial_clock(c) == IF running THEN 1 .. c ELSE { 0 }

\* CountDown.counting(): the time, of the c left, that has gone by since
\* the last pass; CountDown reads the wall clock
elapsed(c) == 1 .. c

\* a pass of wait_for or smart_sleep: the queue is drained for ui_request
\* and some of the remaining time elapses
wait_for ==
  /\ pc \in { "abort_wait", "smart_sleep", "payout_wait", "final_wait" }
  /\ countdown > 0
  /\ \E d \in elapsed(countdown) : countdown' = countdown - d
  /\ frames' = <<>>
  /\ UNCHANGED << pc, blockVars, raised, goggles, display, clockVars,
                  positions, reward_side, tone_count, locals, outcome, hist, ledger >>

\* raise TrialException('Premptive movement')
trial_abort ==
  /\ pc = "abort_wait"
  /\ countdown = 0
  /\ raised' = TRUE
  /\ pc' = "aborted"
  /\ frames' = <<>>
  /\ UNCHANGED << blockVars, goggles, display, clockVars, countdown,
                  positions, reward_side, tone_count, locals, outcome, hist, ledger >>

\* the pre-go loop ends: play the go tone, open the response window
trial_go ==
  /\ pc = "reveal"
  /\ ~go_signal_pending
  /\ tone_count' = tone_count + 1
  /\ tone_play_time' = Some(trial_time_ms)
  /\ rt' = None /\ mt' = None /\ clicked_on' = NoLabel /\ clicked_at' = None /\ pay' = None
  /\ ev_tone' = Some(trial_time_ms)
  /\ pc' = "wait_release"
  /\ frames' = <<>>
  /\ UNCHANGED << blockVars, raised, goggles, display, clockVars, countdown,
                  positions, reward_side, tests, outcome, ev_release, ev_click,
                  ev_start, close_count, ledger >>

\* one pass of the loop "while rt is None and before(TRIAL_TIMEOUT)"
trial_wait_release ==
  /\ pc = "wait_release"
  /\ rt = None /\ before(TRIAL_TIMEOUT)
  /\ \E touch_events \in Releases :
       /\ IF movement_start(touch_events)
            THEN /\ rt' = Some(trial_time_ms - Val(tone_play_time))
                 /\ goggles' = release_goggles(condition, goggles)
                 /\ close_count' = IF release_goggles(condition, "NONE") = CLOSE
                                     THEN close_count + 1 ELSE close_count
            ELSE UNCHANGED << rt, goggles, close_count >>
       /\ ev_release' = IF ~IsSet(ev_release) /\ Len(touch_events) > 0
                           THEN Some(now) ELSE ev_release
  /\ frames' = <<>>
  /\ UNCHANGED << pc, ev_click, blockVars, raised, display, clockVars, countdown, positions,
                  reward_side, tone_count, tone_play_time, mt, clicked_on, clicked_at,
                  pay, tests, outcome, ev_tone, ev_start, ledger >>

\* the release loop ends
trial_release_end ==
  /\ pc = "wait_release"
  /\ ~(rt = None /\ before(TRIAL_TIMEOUT))
  /\ pc' = "wait_click"
  /\ frames' = <<>>
  /\ UNCHANGED << blockVars, raised, goggles, display, clockVars, countdown,
                  positions, reward_side, tone_count, locals, outcome, hist, ledger >>

\* what get_clicks() returns when it drains a queue of at most MaxBatch events
Clicks == { get_clicks(q, FALSE) : q \in Batches }

\* the click loop going on whatever the trial clock reads
awaiting_click_no_deadline == mt = None

\* "while mt is None and self.evm.before(TRIAL_TIMEOUT)"
awaiting_click == mt = None /\ before(TRIAL_TIMEOUT)

\* one pass of the loop "while mt is None and before(TRIAL_TIMEOUT)": the
\* queue is drained by get_clicks() inside listen_for_click; the pump and the
\* ui_request of this loop are commented out, a quit request in the queue
\* goes unnoticed
trial_wait_click ==
  /\ pc = "wait_click"
  /\ awaiting_click
  /\ \E clicks \in Clicks :
       LET r == listen_for_click(circle_boundaries(positions), clicks)
       IN  /\ clicked_at' = Some(r.at)
           /\ clicked_on' = r.on
           /\ tests' = IF Len(clicks) > 0
                         THEN click_tests(circle_boundaries(positions), clicks[1])
                         ELSE tests
           /\ IF r.on # NoLabel
                THEN IF IsSet(rt)
                       THEN /\ mt' = Some(trial_time_ms - Val(rt) - Val(tone_play_time))
                            /\ pc' = pc
                       ELSE /\ mt' = mt
                            /\ pc' = "TypeError"
                ELSE /\ mt' = mt
                     /\ pc' = pc
           /\ ev_click' = IF IsSet(ev_release) /\ ~IsSet(ev_click) /\ Len(clicks) > 0
                            THEN Some(<< now, clicks[1], Len(clicks) >>) ELSE ev_click
  /\ frames' = <<>>
  /\ UNCHANGED << blockVars, raised, goggles, display, clockVars, countdown, positions,
                  reward_side, tone_count, tone_play_time, rt, pay, outcome, ev_tone,
                  ev_release,
                  ev_start, close_count, ledger >>

\* the bank set to the payout of the trial
accumulate_replace(total, payout) == payout

\* "self.bank += pay"
accumulate(total, payout) == total + payout

\* the click loop ends: clear(), payout, bank, first feedback frame
trial_resolve ==
  /\ pc = "wait_click"
  /\ ~awaiting_click
  /\ pay' = Some(get_payout(clicked_on))
  /\ bank' = accumulate(bank, get_payout(clicked_on))
  /\ IF clicked_on # NoLabel
       THEN IF feedback_kind(condition) = "movement_time"
              THEN /\ display' = draw_display(FALSE, TRUE, FALSE, "movement_time")
                   /\ frames' = << blank, draw_display(FALSE, TRUE, FALSE, "movement_time") >>
                   /\ countdown' = FeedbackQuanta
                   /\ pc' = "final_wait"
                   /\ UNCHANGED goggles
            ELSE IF feedback_kind(condition) = "earnings"
              THEN /\ display' = blank
                   /\ frames' = << blank >>
                   /\ countdown' = SleepQuanta
                   /\ pc' = "smart_sleep"
                   /\ UNCHANGED goggles
            ELSE /\ goggles' = OPEN
                 /\ display' = blank
                 /\ frames' = << blank >>
                 /\ countdown' = FeedbackQuanta
                 /\ pc' = "final_wait"
       ELSE /\ display' = draw_display(FALSE, TRUE, FALSE, "timeout")
            /\ frames' = << blank, draw_display(FALSE, TRUE, FALSE, "timeout") >>
            /\ countdown' = FeedbackQuanta
            /\ pc' = "final_wait"
            /\ UNCHANGED goggles
  /\ UNCHANGED << run_practice, practicing, condition, conditions, block_number, trial_number,
                  raised, clockVars, positions, reward_side, tone_count,
                  tone_play_time, rt, mt, clicked_on, clicked_at, tests, outcome, hist,
                  ledger >>

\* reward feedback after smart_sleep(300): open the goggles, show the payout
trial_show_payout ==
  /\ pc = "smart_sleep"
  /\ countdown = 0
  /\ goggles' = reopen_goggles(goggles)
  /\ display' = draw_display(FALSE, TRUE, FALSE, "payout")
  /\ frames' = << draw_display(FALSE, TRUE, FALSE, "payout") >>
  /\ countdown' = FeedbackQuanta
  /\ pc' = "payout_wait"
  /\ UNCHANGED << blockVars, raised, clockVars, positions, reward_side, tone_count,
                  locals, outcome, hist, ledger >>

\* reward feedback after the first wait_for: show the running total
trial_show_total ==
  /\ pc = "payout_wait"
  /\ countdown = 0
  /\ display' = draw_display(FALSE, TRUE, FALSE, "total")
  /\ frames' = << draw_display(FALSE, TRUE, FALSE, "total") >>
  /\ countdown' = FeedbackQuanta
  /\ pc' = "final_wait"
  /\ UNCHANGED << blockVars, raised, goggles, clockVars, positions, reward_side,
                  tone_count, locals, outcome, hist, ledger >>

\* the record trial() returns; clicked_at = None stands for clicked_x and
\* clicked_y = 'NA', a set clicked_at for its two coordinates
trial_record ==
  [feedback_condition |-> condition,
   clicked_on |-> IF clicked_on # NoLabel THEN clicked_on ELSE NA,
   clicked_at |-> clicked_at,
   reaction_time |-> rt,
   movement_time |-> mt,
   trial_earnings |-> Val(pay),
   block_earnings |-> bank]

\* the last wait_for is over: return the record; the locals of trial() end
trial_return ==
  /\ pc = "final_wait"
  /\ countdown = 0
  /\ outcome' = Some(trial_record)
  /\ pc' = "returned"
  /\ frames' = <<>>
  /\ tone_play_time' = None /\ rt' = None /\ mt' = None
  /\ clicked_on' = NoLabel /\ clicked_at' = None /\ pay' = None
  /\ tests' = noTests
  /\ sum_earnings' = sum_earnings + trial_record.trial_earnings
  /\ last_block_earnings' = trial_record.block_earnings
  /\ UNCHANGED << blockVars, raised, goggles, display, clockVars, countdown,
                  positions, reward_side, tone_count, hist >>

\* ------------------------------------------------------------------------
\* trial_clean_up() and the sequencing of trials and blocks
\* ------------------------------------------------------------------------
\* what runs after trial_clean_up: an aborted trial is offered again, a
\* returned one is counted; after the last trial the next block starts
next_trial ==
  IF raised
    THEN pc' = "trial_prep" /\ trial_number' = trial_number
  ELSE IF trial_number < MaxTrials
    THEN pc' = "trial_prep" /\ trial_number' = trial_number + 1
  ELSE IF block_number < MaxBlocks
    THEN pc' = "block" /\ trial_number' = trial_number
  ELSE pc' = "done" /\ trial_number' = trial_number

\* trial_clean_up() up to its spacebar loop
trial_clean_up ==
  /\ pc \in { "returned", "aborted" }
  /\ IF shows_block_score(condition, trial_number)
       THEN /\ goggles' = OPEN
            /\ display' = text_only("score")
            /\ frames' = << blank, text_only("score") >>
            /\ pc' = "score_wait"
            /\ UNCHANGED trial_number
       ELSE /\ next_trial
            /\ frames' = <<>>
            /\ UNCHANGED << goggles, display >>
  /\ running' = FALSE
  /\ UNCHANGED << run_practice, practicing, condition, conditions, bank, block_number,
                  raised, events, now, countdown, positions, reward_side,
                  tone_count, locals, outcome, hist, ledger >>

\* the pass of the spacebar loop of trial_clean_up that sees the spacebar
trial_clean_up_wait ==
  /\ pc = "score_wait"
  /\ TRUE \in SpacePressedInQueue
  /\ next_trial
  /\ display' = blank
  /\ frames' = << blank >>
  /\ UNCHANGED << run_practice, practicing, condition, conditions, bank, block_number,
                  raised, goggles, clockVars, countdown, positions, reward_side,
                  tone_count, locals, outcome, hist, ledger >>

\* ui_request finds a quit request in the drained queue: the experiment
\* ends (clean_up does nothing) and the state of the process is gone; the
\* goggles and the screen stay as they are.  The loops that call ui_request
\* are those of block, trial_prep, the pre-go and the release loop of trial,
\* wait_for, smart_sleep and trial_clean_up
ui_request_quit ==
  /\ pc \in { "block_wait", "await_start", "reveal", "wait_release", "abort_wait",
              "smart_sleep", "payout_wait", "final_wait", "score_wait" }
  /\ TRUE \in QuitRequests
  /\ pc = "reveal" => go_signal_pending
  /\ pc = "wait_release" => (rt = None /\ before(TRIAL_TIMEOUT))
  /\ pc \in { "abort_wait", "smart_sleep", "payout_wait", "final_wait" } => countdown > 0
  /\ pc' = "quit"
  /\ frames' = <<>>
  /\ events' = <<>> /\ now' = 0 /\ running' = FALSE /\ countdown' = 0
  /\ positions' = noPositions /\ reward_side' = "left" /\ tone_count' = 0
  /\ tone_play_time' = None /\ rt' = None /\ mt' = None
  /\ clicked_on' = NoLabel /\ clicked_at' = None /\ pay' = None
  /\ tests' = noTests /\ outcome' = None
  /\ ev_tone' = None /\ ev_release' = None /\ ev_click' = None
  /\ ev_start' = None /\ close_count' = 0
  /\ sum_earnings' = 0 /\ last_block_earnings' = 0
  /\ raised' = FALSE /\ bank' = 0 /\ trial_number' = 0 /\ block_number' = 0
  /\ practicing' = FALSE /\ conditions' = <<>>
  /\ UNCHANGED << run_practice, condition, goggles, display >>

Next ==
  \/ block
  \/ block_wait
  \/ trial_prep
  \/ trial_prep_wait
  \/ Tick
  \/ trial_reveal
  \/ wait_for
  \/ trial_abort
  \/ trial_go
  \/ trial_wait_release
  \/ trial_release_end
  \/ trial_wait_click
  \/ trial_resolve
  \/ trial_show_payout
  \/ trial_show_total
  \/ trial_return
  \/ trial_clean_up
  \/ trial_clean_up_wait
  \/ ui_request_quit

Spec == Init /\ [][Next]_vars

\* ------------------------------------------------------------------------
\* listen_for_click on its own: the boundaries and the click are the inputs
\* ------------------------------------------------------------------------
\* pixels of the frame and of a margin of one circle radius around it
ScreenPoints ==
  { << i * px, j * px >> :
      i \in ((rect_boundary.p1[1] - rad_px) \div px) .. ((rect_boundary.p2[1] + rad_px) \div px),
      j \in ((rect_boundary.p1[2] - rad_px) \div px) .. ((rect_boundary.p2[2] + rad_px) \div px) }

\* circle centres on, next to and away from the edges of the frame
Centres ==
  { rect_boundary.p1[1] - px, rect_boundary.p1[1] + px, screen_x \div 2 }
    \X { rect_boundary.p1[2] - px, rect_boundary.p1[2] + px, screen_y - offset }

InitClick ==
  /\ pc = "placing"
  /\ run_practice = FALSE
  /\ practicing = FALSE
  /\ condition = NoLabel
  /\ conditions = <<>>
  /\ bank = 0
  /\ block_number = 0
  /\ trial_number = 0
  /\ raised = FALSE
  /\ goggles = "NONE"
  /\ display = blank
  /\ frames = <<>>
  /\ events = <<>>
  /\ now = 0
  /\ running = FALSE
  /\ countdown = 0
  /\ positions = noPositions
  /\ reward_side = "left"
  /\ tone_count = 0
  /\ tone_play_time = None
  /\ rt = None
  /\ mt = None
  /\ clicked_on = NoLabel
  /\ clicked_at = None
  /\ pay = None
  /\ tests = noTests
  /\ outcome = None
  /\ ev_tone = None
  /\ ev_release = None
  /\ ev_click = None
  /\ ev_start = None
  /\ close_count = 0
  /\ sum_earnings = 0
  /\ last_block_earnings = 0

clickFrame ==
  UNCHANGED << blockVars, raised, goggles, display, frames, clockVars, countdown,
               tone_count, tone_play_time, rt, mt, clicked_at, outcome, hist, ledger >>

\* the circles as trial_prep places them: every side and every origin
\* that randrange can return
place ==
  /\ pc = "placing"
  /\ \E side \in { "left", "right" }, origin_x \in origin_xs, origin_y \in origin_ys :
       /\ reward_side' = side
       /\ positions' = get_circle_placements(side, origin_x, origin_y)
  /\ pc' = "listening"
  /\ UNCHANGED << tests, clicked_on, pay >>
  /\ clickFrame

\* circle boundaries registered anywhere, also across the edge of the frame
place_any ==
  /\ pc = "placing"
  /\ \E c1 \in Centres, c2 \in Centres : positions' = [penalty |-> c1, reward |-> c2]
  /\ pc' = "listening"
  /\ UNCHANGED << reward_side, tests, clicked_on, pay >>
  /\ clickFrame

\* listen_for_click with one click in the queue, then get_payout
click ==
  /\ pc = "listening"
  /\ \E p \in ScreenPoints :
       LET r == listen_for_click(circle_boundaries(positions), << p >>)
       IN  /\ tests' = click_tests(circle_boundaries(positions), p)
           /\ clicked_on' = r.on
           /\ pay' = Some(get_payout(r.on))
  /\ pc' = "listened"
  /\ UNCHANGED << positions, reward_side >>
  /\ clickFrame

NextPlace == place \/ click

SpecPlace == InitClick /\ [][NextPlace]_vars

NextClassify == place_any \/ click

SpecClassify == InitClick /\ [][NextClassify]_vars

\* ------------------------------------------------------------------------
\* Properties
\* ------------------------------------------------------------------------
t_tone == ev_tone[1]

t_r == ev_release[1]

t_c == ev_click[1][1]

p_c == ev_click[1][2]

PayoutTexts == { "payout", "total" }

PointTexts == { "payout", "total", "score" }

warning_frame == draw_display(FALSE, FALSE, FALSE, "warning")

\* C1: when trial() ends, by returning its record or by raising the
\* TrialException of a premature movement, the last command written to the
\* goggles is OPEN.
C1_goggles_open_at_trial_end ==
  pc \in { "returned", "aborted" } => goggles = OPEN

\* the case of C2: after the tone a release is polled at t_r, the next click
\* is polled at t_c with t_r < t_c < trial_timeout, inside the reward circle
\* and outside the penalty circle
C2_case ==
  /\ IsSet(ev_tone) /\ IsSet(ev_release) /\ IsSet(ev_click)
  /\ t_tone <= t_r
  /\ t_r < t_c
  /\ t_c < deadline(events, TRIAL_TIMEOUT)
  /\ within_circle(circle_boundaries(positions).reward, p_c)
  /\ ~within_circle(circle_boundaries(positions).penalty, p_c)

\* C2: a release at t_r followed by a click inside the reward circle only at
\* t_c, t_r < t_c, both before trial_timeout, gives reaction_time = t_r - tone
\* time, movement_time = t_c - t_r, clicked_on = reward and trial_earnings =
\* REWARD_PAYOUT; the click is kept and the trial does not end as a timeout.
C2_release_then_click ==
  C2_case =>
    IF IsSet(outcome)
      THEN /\ outcome[1].reaction_time = Some(t_r - t_tone)
           /\ outcome[1].movement_time = Some(t_c - t_r)
           /\ outcome[1].clicked_on = REWARD
           /\ outcome[1].trial_earnings = REWARD_PAYOUT
      ELSE /\ pc \in { "wait_click", "smart_sleep", "payout_wait", "final_wait" }
           /\ rt = Some(t_r - t_tone)
           /\ mt = Some(t_c - t_r)
           /\ clicked_on = REWARD
           /\ IsSet(pay) => pay = Some(REWARD_PAYOUT)

\* release 120 ms and click 350 ms after a tone played at the go signal
C2_witness ==
  /\ pc = "returned"
  /\ C2_case
  /\ t_tone = go_time /\ t_r = go_time + 120 /\ t_c = go_time + 350
  /\ outcome[1].reaction_time = Some(120)
  /\ outcome[1].movement_time = Some(230)
  /\ outcome[1].trial_earnings = 100

\* C3: a trial in which no release (and no click) is polled between the tone
\* and the trial_timeout deadline returns clicked_on = 'NA', reaction_time =
\* None, movement_time = None and trial_earnings = TIMEOUT_PAYOUT.
C3_timeout_without_response ==
  (IsSet(outcome) /\ IsSet(ev_tone) /\ ~IsSet(ev_release)) =>
    /\ outcome[1].clicked_on = NA
    /\ outcome[1].reaction_time = None
    /\ outcome[1].movement_time = None
    /\ outcome[1].trial_earnings = TIMEOUT_PAYOUT

\* a test trial that timed out 650 ms after the go signal without a release
C3_witness ==
  /\ pc = "returned"
  /\ ~practicing
  /\ t_tone = go_time
  /\ ~IsSet(ev_release)
  /\ now = go_time + 650
  /\ outcome[1].clicked_on = NA
  /\ outcome[1].trial_earnings = 0 - 700

\* the case of C4: a release was polled before the go_signal deadline
C4_case ==
  /\ IsSet(ev_release)
  /\ t_r < deadline(events, GO_SIGNAL)

\* C4: a release polled before the go_signal deadline aborts the trial: the
\* clock is stopped, the warning is shown, the feedback delay is waited and
\* TrialException is raised; no classification or payout is computed, no
\* record is returned, the tone is not played ...
C4_abort_state ==
  C4_case =>
    /\ pc \in { "abort_wait", "aborted", "score_wait", "trial_prep" }
    /\ ~running
    /\ tone_count = 0 /\ ~IsSet(ev_tone)
    /\ clicked_on = NoLabel /\ ~IsSet(pay) /\ ~IsSet(rt) /\ ~IsSet(mt)
    /\ ~IsSet(outcome)
    /\ pc \in { "abort_wait", "aborted" } => display = warning_frame
    /\ pc # "abort_wait" => (raised /\ countdown = 0)

\* ... and the bank is left as it was when the trial began.
C4_abort_bank ==
  (pc \in { "await_start", "reveal", "abort_wait", "aborted" } /\ pc' # "quit")
    => bank' = bank

C4_premature_release == [](C4_abort_state) /\ [][C4_abort_bank]_vars

C4_witness ==
  /\ pc = "aborted"
  /\ C4_case
  /\ raised
  /\ display = warning_frame

\* C5: in a reward block the poll that detects the release records the
\* reaction time and writes CLOSE to the goggles in the same pass, with no
\* draw in between.
C5_close_at_release ==
  [][(condition = REWARD /\ pc = "wait_release" /\ ~IsSet(ev_release) /\ IsSet(ev_release'))
       => /\ rt' = Some(ev_release'[1] - t_tone)
          /\ goggles' = CLOSE
          /\ display' = display
          /\ frames' = <<>>]_vars

C5_witness ==
  /\ condition = REWARD
  /\ pc = "wait_release"
  /\ IsSet(rt) /\ IsSet(ev_release)
  /\ goggles = CLOSE

\* C6: in a reward trial no payout text is on screen while the goggles are
\* Closed; the payout text appears only when smart_sleep is over, together
\* with the write of OPEN, and the running total only after the payout text.
C6_payout_state ==
  condition = REWARD =>
    /\ display.also \in PayoutTexts => goggles = OPEN
    /\ pc = "smart_sleep" => display.also \notin PayoutTexts

C6_payout_order ==
  condition = REWARD =>
    /\ (display'.also = "payout" /\ display.also # "payout")
         => (pc = "smart_sleep" /\ countdown = 0 /\ goggles' = OPEN)
    /\ (display'.also = "total" /\ display.also # "total")
         => (pc = "payout_wait" /\ countdown = 0 /\ display.also = "payout"
               /\ goggles = OPEN /\ goggles' = OPEN)

C6_open_before_payout == [](C6_payout_state) /\ [][C6_payout_order]_vars

C6_witness ==
  /\ condition = REWARD
  /\ pc = "final_wait"
  /\ display.also = "total"
  /\ goggles = OPEN

\* C7: while the condition is vision no frame shows points: not the trial
\* payout, not the running total, not the block score.
C7_no_points_in_vision ==
  condition = VISION =>
    /\ display.also \notin PointTexts
    /\ \A i \in 1 .. Len(frames) : frames[i].also \notin PointTexts

\* a vision trial returned after a resolved click, feedback over
C7_witness ==
  /\ condition = VISION
  /\ pc = "returned"
  /\ outcome[1].clicked_on # NA

\* C8: a click inside both placed circles is classified overlap, a click
\* inside exactly one of them gets the label of that circle, whichever side
\* the reward circle is on.
C8_circle_labels ==
  pc = "listened" =>
    /\ (tests.reward /\ tests.penalty) => clicked_on = OVERLAP
    /\ (tests.reward /\ ~tests.penalty) => clicked_on = REWARD
    /\ (tests.penalty /\ ~tests.reward) => clicked_on = PENALTY

C8_witness ==
  /\ pc = "listened"
  /\ reward_side = "right"
  /\ tests.reward /\ tests.penalty
  /\ clicked_on = OVERLAP

\* C9: a click outside the rectangle boundary is classified outside, also
\* when it is inside the reward circle, the penalty circle or both, and its
\* payout is not the reward, penalty or overlap value.
C9_outside_dominates ==
  (pc = "listened" /\ ~tests.rect) =>
    /\ clicked_on = OUTSIDE
    /\ pay \notin { Some(REWARD_PAYOUT), Some(PENALTY_PAYOUT), Some(VENN_PAYOUT) }

C9_witness ==
  /\ pc = "listened"
  /\ ~tests.rect
  /\ tests.reward /\ tests.penalty
  /\ clicked_on = OUTSIDE
  /\ pay = Some(0)

InTrial ==
  pc \in { "await_start", "reveal", "abort_wait", "wait_release", "wait_click",
           "smart_sleep", "payout_wait", "final_wait" }

\* C10: every registered deadline is the deadline of its predecessor (trial
\* start without one) plus its own offset: 1000, 1500, 1800 and 2450 ms
\* (31800 ms when practicing); before(label) holds one ms before the deadline
\* and not at the deadline; a predecessor is registered before its successor.
C10_deadlines ==
  events # <<>> =>
    /\ Len(events) = 4
    /\ \A i \in 1 .. Len(events) :
         /\ events[i].onset = events[i].offset
              + (IF events[i].after = NoLabel THEN 0 ELSE deadline(events, events[i].after))
         /\ events[i].after # NoLabel
              => \E j \in 1 .. (i - 1) : events[j].label = events[i].after
         /\ trial_time_ms = events[i].onset - 1 => before(events[i].label)
         /\ trial_time_ms = events[i].onset => ~before(events[i].label)
    /\ deadline(events, RECTANGLE_ONSET) = 1000
    /\ deadline(events, CIRCLE_ONSET) = 1500
    /\ deadline(events, GO_SIGNAL) = 1800
    /\ deadline(events, TRIAL_TIMEOUT) \in { 2450, 31800 }
    /\ InTrial => deadline(events, TRIAL_TIMEOUT) = (IF practicing THEN 31800 ELSE 2450)

\* the loop of trial() polling one ms before the go_signal deadline
C10_witness ==
  /\ pc = "reveal"
  /\ ~practicing
  /\ trial_time_ms = 1799
  /\ before(GO_SIGNAL)
  /\ deadline(events, TRIAL_TIMEOUT) = 2450

\* a loop of the trial is waiting: for the start touch, for the go signal,
\* for the release, for the click, or for a feedback delay to run out
WaitState ==
  \/ pc = "await_start"
  \/ pc = "reveal" /\ go_signal_pending
  \/ pc = "wait_release" /\ rt = None /\ before(TRIAL_TIMEOUT)
  \/ pc = "wait_click" /\ mt = None /\ before(TRIAL_TIMEOUT)
  \/ pc \in { "abort_wait", "smart_sleep", "payout_wait", "final_wait" } /\ countdown > 0

\* C11: in every wait state of a trial the next pass of the loop checks the
\* queue it drains for a quit request: a quit request raised during the wait
\* ends the experiment at that pass.
C11_quit_checked_every_tick == WaitState => ENABLED ui_request_quit

\* C12: when the experiment has ended on a quit request the goggles are not
\* Closed: OPEN is written before the request takes effect.
C12_goggles_open_at_quit == pc = "quit" => goggles # CLOSE

FeedbackPhases == { "smart_sleep", "payout_wait", "final_wait" }

\* C13: the bank is 0 at the start of a block and, outside the feedback of a
\* trial whose record is not yet returned, equals the sum of the
\* trial_earnings of the records returned in the block; an aborted trial
\* adds nothing ...
C13_bank_state ==
  /\ pc = "block_wait" => (bank = 0 /\ sum_earnings = 0)
  /\ pc \notin (FeedbackPhases \cup { "listening", "listened", "placing" })
       => bank = sum_earnings
  /\ pc \in FeedbackPhases => bank = sum_earnings + Val(pay)
  /\ pc \in { "abort_wait", "aborted" } => bank = sum_earnings

\* ... and the block_earnings of a returned record is the block_earnings of
\* the record before it (0 for the first of the block) plus its own
\* trial_earnings.
C13_bank_step ==
  (IsSet(outcome') /\ ~IsSet(outcome)) =>
    /\ outcome'[1].block_earnings = last_block_earnings + outcome'[1].trial_earnings
    /\ outcome'[1].block_earnings = sum_earnings'

C13_bank_is_sum == [](C13_bank_state) /\ [][C13_bank_step]_vars

\* the second trial of the second block: a reward click after a penalty click
C13_witness ==
  /\ pc = "returned"
  /\ block_number = 2 /\ trial_number = 2
  /\ outcome[1].trial_earnings = REWARD_PAYOUT
  /\ outcome[1].block_earnings = PENALTY_PAYOUT + REWARD_PAYOUT
  /\ bank = sum_earnings

n_c == ev_click[1][3]

\* the label and the tests of the first click of the poll
C14_first_label == click_label(click_tests(circle_boundaries(positions), p_c))

\* C14: when the poll of the click loop returns more than one click, the
\* first click of the poll is the one classified and recorded, the trial
\* goes on to its feedback and returns a record; the process does not end.
C14_first_click_classified ==
  (IsSet(ev_click) /\ n_c > 1) =>
    /\ pc \in { "wait_click", "smart_sleep", "payout_wait", "final_wait", "returned",
                "score_wait", "trial_prep", "block", "block_wait", "done" }
    /\ ~raised
    /\ IF IsSet(outcome)
         THEN /\ outcome[1].clicked_at = Some(p_c)
              /\ outcome[1].clicked_on = C14_first_label
              /\ outcome[1].trial_earnings = get_payout(C14_first_label)
         ELSE /\ clicked_at = Some(p_c)
              /\ clicked_on = C14_first_label
              /\ pc # "wait_click" => pay = Some(get_payout(C14_first_label))

\* two clicks in one poll, the first inside both circles
C14_witness ==
  /\ pc = "returned"
  /\ IsSet(ev_click) /\ n_c = 2
  /\ outcome[1].clicked_on = OVERLAP
  /\ outcome[1].clicked_at = Some(p_c)
  /\ outcome[1].trial_earnings = VENN_PAYOUT

\* C15: a record whose clicked_on is 'NA' has clicked_x = clicked_y = 'NA',
\* whether the timeout came before or after the release.
C15_na_coordinates ==
  (IsSet(outcome) /\ outcome[1].clicked_on = NA) => outcome[1].clicked_at = None

\* the clock keeps advancing and the program keeps running
SpecLive ==
  /\ Init /\ [][Next]_vars
  /\ WF_vars(Tick)
  /\ WF_vars(trial_reveal)
  /\ WF_vars(wait_for)
  /\ WF_vars(trial_abort)
  /\ WF_vars(trial_go)
  /\ WF_vars(trial_release_end)
  /\ WF_vars(trial_resolve)
  /\ WF_vars(trial_show_payout)
  /\ WF_vars(trial_show_total)
  /\ WF_vars(trial_return)

\* C16: once trial() has started it ends, whatever the input: it returns a
\* record or raises the abort of a premature movement (or the experiment
\* quits on a quit request); no loop of trial() runs forever, the waits that
\* follow stop_clock() included.
C16_trial_terminates ==
  (pc = "reveal") ~> (pc \in { "returned", "aborted", "quit" })

\* the abort raised after the wait that follows stop_clock()
C16_witness ==
  /\ pc = "aborted"
  /\ ~running
  /\ countdown = 0
  /\ now < deadline(events, GO_SIGNAL)

TrialPhases ==
  { "reveal", "abort_wait", "aborted", "wait_release", "wait_click",
    "smart_sleep", "payout_wait", "final_wait", "returned" }

\* C17 as stated: the reveal phase begins only after a poll that held a
\* click inside the start boundary, and every poll that holds a click inside
\* the start boundary ends the wait.
C17_any_start_click_ends_wait ==
  /\ pc \in TrialPhases => (IsSet(ev_start) /\ ev_start[1][2])
  /\ (pc = "await_start" /\ IsSet(ev_start)) => ~ev_start[1][2]

\* C17: the reveal phase begins only after a poll whose first click is
\* inside the start boundary, and every poll whose first click is inside the
\* start boundary ends the wait; a click inside the start boundary that is
\* not the first of its poll does not end it.
C17_first_start_click_ends_wait ==
  /\ pc \in TrialPhases
       => (IsSet(ev_start) /\ within_circle(start_boundary, ev_start[1][1]))
  /\ (pc = "await_start" /\ IsSet(ev_start))
       => ~within_circle(start_boundary, ev_start[1][1])

\* the wait goes on after a poll whose second click is on the start marker
C17_witness ==
  /\ pc = "await_start"
  /\ IsSet(ev_start)
  /\ ev_start[1][2]
  /\ ~within_circle(start_boundary, ev_start[1][1])

\* C18: in the reveal phase a pass of the loop draws no frame that is
\* already on screen, and once the circles are on screen no frame without
\* them is drawn before the go signal.
C18_drawn_once ==
  [][(pc = "reveal" /\ pc' = "reveal") =>
       \A i \in 1 .. Len(frames') :
         /\ frames'[i] # display
         /\ display.circles => frames'[i].circles]_vars

\* C19: the tone is played at most once in a trial and not before the
\* go_signal deadline; before it no reaction time, no CLOSE and no click
\* classification exists, and the response window is not open ...
C19_tone_state ==
  /\ tone_count <= 1
  /\ IsSet(ev_tone) => (tone_count = 1 /\ t_tone >= deadline(events, GO_SIGNAL))
  /\ pc \in { "wait_release", "wait_click" } => (IsSet(ev_tone) /\ tone_count = 1)
  /\ pc \in { "await_start", "reveal", "abort_wait", "aborted" } =>
       /\ tone_count = 0 /\ ~IsSet(ev_tone)
       /\ rt = None /\ mt = None
       /\ clicked_on = NoLabel /\ clicked_at = None /\ tests = noTests
       /\ goggles = OPEN /\ close_count = 0

\* ... and each of them is produced by a step taken after the tone.
C19_tone_step ==
  /\ tone_count' > tone_count => (pc = "reveal" /\ ~before(GO_SIGNAL))
  /\ ((IsSet(rt') /\ rt' # rt) \/ close_count' > close_count
        \/ (clicked_on' # NoLabel /\ clicked_on' # clicked_on))
       => (IsSet(ev_tone) /\ tone_count = 1 /\ pc \in { "wait_release", "wait_click", "listening" })

C19_tone_before_response == [](C19_tone_state) /\ [][C19_tone_step]_vars

\* a click classified in the response window of a tone played at 1800 ms
C19_witness ==
  /\ pc = "wait_click"
  /\ tone_count = 1
  /\ t_tone = go_time
  /\ IsSet(rt)
  /\ clicked_on # NoLabel

C20_closed_state ==
  /\ condition \in { PRACTICE, VISION } => goggles # CLOSE
  /\ pc \in { "block_wait", "await_start", "reveal", "abort_wait", "aborted" }
       => goggles # CLOSE
  /\ pc = "payout_wait" => goggles # CLOSE
  /\ (pc = "final_wait" /\ display.also # "timeout") => goggles # CLOSE
  /\ close_count <= 1
  /\ (goggles = CLOSE /\ pc # "quit") => (condition = REWARD /\ close_count = 1)

\* ... and every write of CLOSE is made in the release loop.
C20_closed_step ==
  (close_count' > close_count \/ (goggles' = CLOSE /\ goggles # CLOSE)) =>
    /\ pc = "wait_release"
    /\ condition = REWARD
    /\ ~IsSet(rt) /\ IsSet(rt')
    /\ close_count' = 1

C21_record_consistent ==
  /\ pc # "TypeError"
  /\ IsSet(mt) => IsSet(rt)
  /\ (pc = "wait_click" /\ ~IsSet(rt)) => (~before(TRIAL_TIMEOUT) /\ clicked_on = NoLabel)
  /\ IsSet(outcome) =>
       /\ IsSet(outcome[1].movement_time) => IsSet(outcome[1].reaction_time)
       /\ (outcome[1].clicked_on # NA) <=> IsSet(outcome[1].movement_time)
       /\ (outcome[1].trial_earnings = TIMEOUT_PAYOUT) <=> ~IsSet(outcome[1].movement_time)

\* a returned record of a trial with a release but no click before the
\* deadline: reaction_time set, movement_time unset, the click loop has run
C21_witness ==
  /\ pc = "returned"
  /\ IsSet(outcome[1].reaction_time)
  /\ ~IsSet(outcome[1].movement_time)
  /\ outcome[1].clicked_on = NA
  /\ outcome[1].clicked_at = Some(<< 0 - 1, 0 - 1 >>)
  /\ outcome[1].trial_earnings = TIMEOUT_PAYOUT

====
